---- MODULE Spec2Model ----
(***************************************************************************)
(* TF2 Rich Presence: the custom-map gamemode resolver (custom_maps.py).   *)
(* find_custom_map_gamemode resolves a map name through the static table   *)
(* of maps.json, the custom_maps cache of DB.json and the teamwork.tf API. *)
(***************************************************************************)
EXTENDS Integers, Sequences, FiniteSets, TLC

\* ------------------------------------------------------------- bounds

\* longest all_gamemodes list the remote service answers with
MaxTags == 2
\* settings 'map_invalidation_hours' is drawn from 1..MaxHours, and the clock
\* runs over the instants h * 3600 + k, h in 0..MaxHours, k in 0..1
MaxHours == 1

\* the largest number of loop_body calls of one session
MaxLoops == 4

\* ---------------------------------------------------------- constants

\* seconds per hour, the factor of the cache expiration test
SecondsPerHour == 3600

\* the fallback result of every failed resolution
SentinelPair == <<"unknown_map", "Unknown gamemode">>

\* the fixed translation table from teamwork.tf tags to display names
gamemodes ==
    "ctf" :> "Capture the Flag" @@ "control-point" :> "Control Point"
    @@ "attack-defend" :> "Attack/Defend"
    @@ "medieval-mode" :> "Attack/Defend (Medieval Mode)"
    @@ "territorial-control" :> "Territorial Control" @@ "payload" :> "Payload"
    @@ "payload-race" :> "Payload Race" @@ "koth" :> "King of the Hill"
    @@ "special-delivery" :> "Special Delivery" @@ "mvm" :> "Mann vs. Machine"
    @@ "beta-map" :> "Robot Destruction" @@ "mannpower" :> "Mannpower"
    @@ "passtime" :> "PASS Time" @@ "player-destruction" :> "Player Destruction"
    @@ "arena" :> "Arena" @@ "training" :> "Training" @@ "surfing" :> "Surfing"
    @@ "trading" :> "Trading" @@ "jumping" :> "Jumping"
    @@ "deathmatch" :> "Deathmatch" @@ "cp-orange" :> "Orange"
    @@ "versus-saxton-hale" :> "Versus Saxton Hale" @@ "deathrun" :> "Deathrun"
    @@ "achievement" :> "Achievement" @@ "breakout" :> "Jail Breakout"
    @@ "slender" :> "Slender" @@ "dodgeball" :> "Dodgeball"
    @@ "mario-kart" :> "Mario Kart" @@ "prophunt" :> "Prop Hunt"
    @@ "class-wars" :> "Class Wars" @@ "stop-that-tank" :> "Stop that Tank!"

\* gamemodes.keys()
gamemodes_keys == DOMAIN gamemodes

\* ------------------------------------------------------------- inputs

\* map_filename arguments: blank, a common custom map, two other custom maps
MapNames == {"", "cp_orange_x3", "cp_catwalk_a5c", "ytsb8eitybw"}

\* tags the remote service may list: two recognised ones and an unknown one
Tags == {"control-point", "koth", "other-tag"}

\* the tags of a list
Range(l) == {l[i] : i \in DOMAIN l}

\* lists of 0..n tags, each tag listed once
RECURSIVE TagLists(_)
TagLists(n) ==
    IF n = 0 THEN {<<>>}
    ELSE LET shorter == TagLists(n - 1)
         IN shorter \cup
            UNION {{Append(l, t) : t \in Tags \ Range(l)} :
                   l \in {s \in shorter : Len(s) = n - 1}}

\* what requests.get(...) followed by r.json() can produce:
\*   exc    - the exception requests.get raises ("none" when it returns)
\*   status - the HTTP status of the response (never read by the code)
\*   body   - the shape of the response body:
\*            not_json       r.json() raises ValueError
\*            array          the top-level JSON value is a list
\*            object_no_key  a JSON object without 'all_gamemodes'
\*            object_null    a JSON object whose 'all_gamemodes' is null
\*            object_list    a JSON object whose 'all_gamemodes' is the list tags
Responses ==
    [exc : {"ConnectTimeout", "ReadTimeout", "ConnectionError"},
     status : {0}, body : {"none"}, tags : {<<>>}]
    \cup [exc : {"none"}, status : {200},
          body : {"not_json", "array", "object_no_key", "object_null"}, tags : {<<>>}]
    \cup [exc : {"none"}, status : {404},
          body : {"not_json", "object_no_key"}, tags : {<<>>}]
    \cup [exc : {"none"}, status : {200}, body : {"object_list"}, tags : TagLists(MaxTags)]

\* the response slot of a call that issued no request
NoResponse == [exc |-> "none", status |-> 0, body |-> "none", tags |-> <<>>]

\* values of int(time.time()) the model observes: every whole hour since the
\* start and the second after it
Instants == {h * SecondsPerHour + k : h \in 0..MaxHours, k \in 0..1}

\* contents of maps.json 'common_custom' the program may be shipped with
StaticTables ==
    { "cp_orange_x3" :> <<"cp-orange", "Orange">>,
      "cp_orange_x3" :> <<"cp-orange", "Orange">>
          @@ "cp_catwalk_a5c" :> <<"control-point", "Control Point">> }

\* contents of DB.json 'custom_maps' left by earlier runs
InitialCaches ==
    { <<>>, "cp_catwalk_a5c" :> <<"koth", "King of the Hill", 0>> }

\* -------------------------------------------------------------- state

VARIABLES
    clock,                  \* int(time.time())
    maps_db,                \* load_maps_db(): the memoized maps.json
    db,                     \* utils.access_db(): the persisted DB.json document
    map_invalidation_hours, \* settings.get('map_invalidation_hours')
    call,                   \* arguments and start time of the latest call
    response,               \* what the latest call's request produced
    outcome,                \* result and effects of the latest call
    in_flight,              \* concurrent calls: each one's position and locals
    app,                    \* the TF2RichPresense object's fields
    game_state,             \* app.game_state
    rpc_client,             \* app.rpc_client and the client objects created so far
    tick,                   \* what the latest loop_body call did
    pc,                     \* where run() is: loop_body, sleep, exited, crashed
    alive,                  \* app.gui.alive
    sleep_time,             \* run(): the sleep_time of the current sleep
    sleep_elapsed           \* run(): whole seconds since sleep_time_started

resolver_vars ==
    <<clock, maps_db, db, map_invalidation_hours, call, response, outcome, in_flight>>

session_vars == <<app, game_state, rpc_client, tick, pc, alive, sleep_time, sleep_elapsed>>

vars == <<resolver_vars, session_vars>>

\* ------------------------------------------------------------ helpers

\* mutant: the dict written back holds the new key alone
DictSet_OnlyNewKey(d, k, v) == [x \in {k} |-> v]

\* d[k] = v on a Python dict
DictSet(d, k, v) == [x \in (DOMAIN d) \cup {k} |-> IF x = k THEN v ELSE d[x]]

\* truth value of a dict (None is modelled by the empty dict: both are falsy)
Truthy(d) == DOMAIN d # {}

\* as access_custom_maps_cache, but a write keeps the entries the document
\* holds beside those of dict_input
access_custom_maps_cache_Merge(document, dict_input) ==
    IF Truthy(dict_input)
    THEN [db |-> [document EXCEPT !.custom_maps =
                      [x \in DOMAIN document.custom_maps \cup DOMAIN dict_input |->
                          IF x \in DOMAIN dict_input
                          THEN dict_input[x] ELSE document.custom_maps[x]]],
          result |-> <<>>]
    ELSE [db |-> document, result |-> document.custom_maps]

\* reads or writes the cache of custom maps in DB.json: the document after the
\* call and the value returned
access_custom_maps_cache(document, dict_input) ==
    IF Truthy(dict_input)
    THEN [db |-> [document EXCEPT !.custom_maps = dict_input], result |-> <<>>]
    ELSE [db |-> document, result |-> document.custom_maps]

\* mutant: the setting is compared as seconds, the factor 3600 forgotten
CacheValid_Seconds(seconds_since_epoch_now, cached_data, hours) ==
    seconds_since_epoch_now - cached_data[3] <= hours

\* mutant: a cached entry never expires
CacheValid_NeverExpires(seconds_since_epoch_now, cached_data, hours) == TRUE

\* mutant: the boundary age counts as expired (< for <=)
CacheValid_Strict(seconds_since_epoch_now, cached_data, hours) ==
    seconds_since_epoch_now - cached_data[3] < hours * SecondsPerHour

\* custom map cache expiration: the test of a cached entry against the clock
CacheValid(seconds_since_epoch_now, cached_data, hours) ==
    seconds_since_epoch_now - cached_data[3] <= hours * SecondsPerHour

\* mutant: the loop does not return at the first recognised tag, the last one wins
RECURSIVE FirstRecognised_Last(_)
FirstRecognised_Last(map_gamemode) ==
    IF map_gamemode = <<>> THEN ""
    ELSE LET later == FirstRecognised_Last(Tail(map_gamemode))
         IN IF later # "" THEN later
            ELSE IF Head(map_gamemode) \in gamemodes_keys THEN Head(map_gamemode)
            ELSE ""

\* the for loop over map_info['all_gamemodes']: the first recognised tag,
\* "" when the loop ends without one
RECURSIVE FirstRecognised(_)
FirstRecognised(map_gamemode) ==
    IF map_gamemode = <<>> THEN ""
    ELSE IF Head(map_gamemode) \in gamemodes_keys THEN Head(map_gamemode)
    ELSE FirstRecognised(Tail(map_gamemode))

\* the request and r.json(): how the try block of the request ends
RequestOutcome(resp) ==
    IF resp.exc \in {"ConnectTimeout", "ReadTimeout"} THEN "timeout"
    ELSE IF resp.exc # "none" \/ resp.body = "not_json" THEN "error"
    ELSE "parsed"

\* mutant: the clock is read again when the entry is written
EntryTimestamp_AtWrite(seconds_since_epoch_now, request_end) == request_end

\* mutant: the duration of the request is stored in place of the timestamp
EntryTimestamp_Elapsed(seconds_since_epoch_now, request_end) == request_end - seconds_since_epoch_now

\* the resolved_at written with a cache entry: the time read when the call
\* started, whenever the request ended
EntryTimestamp(seconds_since_epoch_now, request_end) == seconds_since_epoch_now

\* the entry stored for a response without a recognised tag
UnrecognisedEntry(seconds_since_epoch_now, request_end) ==
    <<"unknown_map", "Unknown gamemode",
      EntryTimestamp(seconds_since_epoch_now, request_end)>>

\* the entry stored for a recognised tag
FoundEntry(gamemode, seconds_since_epoch_now, request_end) ==
    <<gamemode, gamemodes[gamemode],
      EntryTimestamp(seconds_since_epoch_now, request_end)>>

\* a finished call: the value returned (<<>> when an exception leaves the
\* function), the exception, the document, the numbers of network requests,
\* cache reads and cache writes made, and the return statement reached
Result(ret, raised, document, requests, cache_reads, cache_writes, path) ==
    [ret |-> ret, raised |-> raised, db |-> document, requests |-> requests,
     cache_reads |-> cache_reads, cache_writes |-> cache_writes, path |-> path]

\* mutant: a response without a recognised tag is returned without a cache write
ParseApiResult_UnknownNotCached(map_filename, seconds_since_epoch_now, request_end, resp, document, custom_map_gamemodes) ==
    IF resp.body \in {"array", "object_null"}
    THEN Result(<<>>, "TypeError", document, 1, 1, 0, "raised")
    ELSE LET gamemode == IF resp.body = "object_list"
                         THEN FirstRecognised(resp.tags) ELSE ""
         IN IF gamemode # ""
            THEN LET modified == DictSet(custom_map_gamemodes, map_filename,
                                    FoundEntry(gamemode, seconds_since_epoch_now, request_end))
                 IN Result(<<gamemode, gamemodes[gamemode]>>, "none",
                           access_custom_maps_cache(document, modified).db,
                           1, 1, 1, "found")
            ELSE Result(SentinelPair, "none", document, 1, 1, 0, "unrecognized")

\* the part of find_custom_map_gamemode after r.json() returned map_info
ParseApiResult(map_filename, seconds_since_epoch_now, request_end, resp, document, custom_map_gamemodes) ==
    IF resp.body \in {"array", "object_null"}
    THEN Result(<<>>, "TypeError", document, 1, 1, 0, "raised")
    ELSE LET gamemode == IF resp.body = "object_list"
                         THEN FirstRecognised(resp.tags) ELSE ""
         IN IF gamemode # ""
            THEN LET modified == DictSet(custom_map_gamemodes, map_filename,
                                    FoundEntry(gamemode, seconds_since_epoch_now, request_end))
                 IN Result(<<gamemode, gamemodes[gamemode]>>, "none",
                           access_custom_maps_cache(document, modified).db,
                           1, 1, 1, "found")
            ELSE LET modified == DictSet(custom_map_gamemodes, map_filename,
                                    UnrecognisedEntry(seconds_since_epoch_now, request_end))
                 IN Result(SentinelPair, "none",
                           access_custom_maps_cache(document, modified).db,
                           1, 1, 1, "unrecognized")

\* mutant: a timeout is cached like a response without a recognised tag
ApiLookup_CacheTimeout(map_filename, seconds_since_epoch_now, request_end, resp, document, custom_map_gamemodes) ==
    CASE RequestOutcome(resp) = "timeout" ->
            LET modified == DictSet(custom_map_gamemodes, map_filename,
                                UnrecognisedEntry(seconds_since_epoch_now, request_end))
            IN Result(SentinelPair, "none",
                      access_custom_maps_cache(document, modified).db,
                      1, 1, 1, "timeout")
      [] RequestOutcome(resp) = "error" ->
            Result(SentinelPair, "none", document, 1, 1, 0, "error")
      [] OTHER ->
            ParseApiResult(map_filename, seconds_since_epoch_now, request_end, resp,
                           document, custom_map_gamemodes)

\* the except KeyError branch of the cache lookup: the request and its handling
ApiLookup(map_filename, seconds_since_epoch_now, request_end, resp, document, custom_map_gamemodes) ==
    CASE RequestOutcome(resp) = "timeout" ->
            Result(SentinelPair, "none", document, 1, 1, 0, "timeout")
      [] RequestOutcome(resp) = "error" ->
            Result(SentinelPair, "none", document, 1, 1, 0, "error")
      [] OTHER ->
            ParseApiResult(map_filename, seconds_since_epoch_now, request_end, resp,
                           document, custom_map_gamemodes)

\* mutant: the lookup always falls through to the request
CacheHit_AlwaysMiss(map_filename, force_api, seconds_since_epoch_now, custom_map_gamemodes, hours) == FALSE

\* whether the cache lookup returns the cached pair
CacheHit(map_filename, force_api, seconds_since_epoch_now, custom_map_gamemodes, hours) ==
    /\ ~force_api
    /\ map_filename \in DOMAIN custom_map_gamemodes
    /\ CacheValid(seconds_since_epoch_now, custom_map_gamemodes[map_filename], hours)

\* the function from the cache lookup on (lines 36-96)
CacheThenApi(map_filename, force_api, seconds_since_epoch_now, request_end, resp, document, hours) ==
    LET custom_map_gamemodes == access_custom_maps_cache(document, <<>>).result
    IN IF CacheHit(map_filename, force_api, seconds_since_epoch_now,
                   custom_map_gamemodes, hours)
       THEN LET cached_data == custom_map_gamemodes[map_filename]
            IN Result(<<cached_data[1], cached_data[2]>>, "none", document,
                      0, 1, 0, "cache_hit")
       ELSE ApiLookup(map_filename, seconds_since_epoch_now, request_end, resp,
                      document, custom_map_gamemodes)

\* mutant: the cache is consulted before the static table
find_custom_map_gamemode_CacheFirst(map_filename, force_api, seconds_since_epoch_now, request_end, resp, document, map_gamemodes, hours) ==
    IF map_filename = ""
    THEN Result(SentinelPair, "none", document, 0, 0, 0, "blank")
    ELSE IF CacheHit(map_filename, force_api, seconds_since_epoch_now,
                     access_custom_maps_cache(document, <<>>).result, hours)
    THEN CacheThenApi(map_filename, force_api, seconds_since_epoch_now, request_end,
                      resp, document, hours)
    ELSE IF map_filename \in DOMAIN map_gamemodes.common_custom
    THEN Result(map_gamemodes.common_custom[map_filename], "none", document,
                0, 1, 0, "static")
    ELSE CacheThenApi(map_filename, force_api, seconds_since_epoch_now, request_end,
                      resp, document, hours)

\* mutant: the blank-name check is missing
find_custom_map_gamemode_NoBlankCheck(map_filename, force_api, seconds_since_epoch_now, request_end, resp, document, map_gamemodes, hours) ==
    IF map_filename \in DOMAIN map_gamemodes.common_custom
    THEN Result(map_gamemodes.common_custom[map_filename], "none", document,
                0, 0, 0, "static")
    ELSE CacheThenApi(map_filename, force_api, seconds_since_epoch_now, request_end,
                      resp, document, hours)

\* uses teamwork.tf's API to find the gamemode of a custom map
find_custom_map_gamemode(map_filename, force_api, seconds_since_epoch_now, request_end, resp, document, map_gamemodes, hours) ==
    IF map_filename = ""
    THEN Result(SentinelPair, "none", document, 0, 0, 0, "blank")
    ELSE IF map_filename \in DOMAIN map_gamemodes.common_custom
    THEN Result(map_gamemodes.common_custom[map_filename], "none", document,
                0, 0, 0, "static")
    ELSE CacheThenApi(map_filename, force_api, seconds_since_epoch_now, request_end,
                      resp, document, hours)

\* ---------------------------------------- main.py: TF2RichPresense

\* settings.get('wait_time') and settings.get('wait_time_slow'), in seconds
wait_time == 2

wait_time_slow == 5

\* the messages send_rpc_activity recognises as non-fatal
RecognisedErrors ==
    {"Can't send data to Discord via IPC.", "Can't connect to Discord Client."}

\* how a connect() or an update_activity() call on the client can end: it
\* returns, or it raises an exception with one of these messages
IpcResults == {"ok"} \cup RecognisedErrors \cup {"[Errno 32] Broken pipe"}

\* the 'running' entries of process_scanner.scan()
PData == [TF2 : BOOLEAN, Discord : BOOLEAN, Steam : BOOLEAN]

AllRunning(p_data) == p_data.TF2 /\ p_data.Discord /\ p_data.Steam

\* interpret_console_log returned None
NoneParsed ==
    [some |-> FALSE, in_menus |-> TRUE, tf2_map |-> "", tf2_class |-> "",
     queued_state |-> "Not queued"]

\* what interpret_console_log can return
ConsoleLogs ==
    {NoneParsed}
    \cup {[some |-> TRUE, in_menus |-> TRUE, tf2_map |-> "", tf2_class |-> "",
           queued_state |-> q] : q \in {"Not queued", "Queued for Casual"}}
    \cup {[some |-> TRUE, in_menus |-> FALSE, tf2_map |-> "cp_orange_x3",
           tf2_class |-> "Scout", queued_state |-> "Not queued"]}

\* str.lower() on the program names the loop passes
Lower(s) ==
    CASE s = "TF2" -> "tf2"
      [] s = "Discord" -> "discord"
      [] s = "Steam" -> "steam"
      [] s = "Team Fortress 2" -> "team fortress 2"

\* what one loop_body call did: its process scan, what the log interpretation
\* returned ("not read", "None" or "tuple"), how often it made each call, the
\* calls in their order, the message of the exception send_rpc_activity caught
\* ("" for none), whether the window was closed during the call and the
\* exception that left loop_body
NothingDone ==
    [p_data |-> [TF2 |-> FALSE, Discord |-> FALSE, Steam |-> FALSE],
     parsed |-> "not read",
     class_config_files |-> 0, set_bulk |-> 0, connects |-> 0, updates |-> 0,
     disconnects |-> 0, init_operations |-> 0, priority |-> 0,
     events |-> <<>>, client_error |-> "", closed |-> FALSE, raised |-> "none"]

\* the fields of a TF2RichPresense object after __init__
TF2RichPresense(set_process_priority) ==
    [test_state |-> "init",
     client_connected |-> FALSE,
     has_checked_class_configs |-> FALSE,
     loop_iteration |-> 0,
     slow_sleep_time |-> FALSE,
     has_set_process_priority |-> ~set_process_priority,
     did_init_operations |-> FALSE,
     no_condebug |-> FALSE,
     fast_next_loop |-> FALSE]

\* game_state.GameState() as __init__ creates it
GameState ==
    [in_menus |-> TRUE, tf2_map |-> "", tf2_class |-> "",
     queued_state |-> "Not queued", update_rpc |-> TRUE]

\* self.rpc_client = None, and no client object exists yet
NoClient == [created |-> FALSE, connected |-> FALSE, earlier_connected |-> FALSE]

\* the operators below take and return a context c: the application object
\* (app), its game state (gs), the presence client (rpc), the front end's
\* alive flag (alive) and the record of what the running loop_body call has
\* done so far (did)

\* as LoopStart, but keeps fast_next_loop from the tick before
LoopStart_KeepsFast(c) ==
    [c EXCEPT !.app.slow_sleep_time = FALSE,
              !.app.loop_iteration = @ + 1,
              !.app.no_condebug = FALSE]

\* as LoopStart, but keeps slow_sleep_time from the tick before
LoopStart_KeepsSlow(c) ==
    [c EXCEPT !.app.loop_iteration = @ + 1,
              !.app.no_condebug = FALSE,
              !.app.fast_next_loop = FALSE]

\* the top of loop_body
LoopStart(c) ==
    [c EXCEPT !.app.slow_sleep_time = FALSE,
              !.app.loop_iteration = @ + 1,
              !.app.no_condebug = FALSE,
              !.app.fast_next_loop = FALSE]

\* the Steam config scan (and the console log) found no -condebug
SteamConfigScan(c, p_data, no_condebug_found) ==
    IF p_data.Steam /\ no_condebug_found
    THEN [c EXCEPT !.app.no_condebug = TRUE]
    ELSE c

ClassConfigCheck(c) ==
    IF ~c.app.has_checked_class_configs
    THEN [c EXCEPT !.did.class_config_files = @ + 1,
                   !.did.events = Append(@, "class_config_files"),
                   !.app.has_checked_class_configs = TRUE]
    ELSE c

\* GameState.set_bulk on the parsed console log
set_bulk(gs, console_log_parsed) ==
    [gs EXCEPT !.in_menus = console_log_parsed.in_menus,
               !.tf2_map = console_log_parsed.tf2_map,
               !.tf2_class = console_log_parsed.tf2_class,
               !.queued_state = console_log_parsed.queued_state]

\* as InterpretConsoleLog, but calls set_bulk on None as well
InterpretConsoleLog_SetsOnNone(c, console_log_parsed) ==
    [c EXCEPT !.gs = set_bulk(@, console_log_parsed),
              !.did.parsed = IF console_log_parsed.some THEN "tuple" ELSE "None",
              !.did.set_bulk = @ + 1,
              !.did.events = Append(@, "set_bulk")]

InterpretConsoleLog(c, console_log_parsed) ==
    IF console_log_parsed.some
    THEN [c EXCEPT !.gs = set_bulk(@, console_log_parsed),
                   !.did.parsed = "tuple",
                   !.did.set_bulk = @ + 1,
                   !.did.events = Append(@, "set_bulk")]
    ELSE [c EXCEPT !.did.parsed = "None"]

\* as SetTestState, but without looking at in_menus
SetTestState_AlwaysMenus(c) == [c EXCEPT !.app.test_state = "menus"]

SetTestState(c) ==
    IF c.gs.in_menus
    THEN [c EXCEPT !.app.test_state = "menus"]
    ELSE [c EXCEPT !.app.test_state = "in game"]

\* a new ipc.DiscordIPC replaces self.rpc_client
NewClient(rpc) ==
    [created |-> TRUE, connected |-> FALSE,
     earlier_connected |-> rpc.earlier_connected \/ (rpc.created /\ rpc.connected)]

\* as HandleClientError, but logs every exception and raises none
HandleClientError_LogsAll(c, message) == [c EXCEPT !.did.client_error = message]

\* the exception handler of send_rpc_activity
HandleClientError(c, message) ==
    IF message \in RecognisedErrors
    THEN [c EXCEPT !.did.client_error = message]
    ELSE [c EXCEPT !.did.client_error = message, !.did.raised = "Exception"]

\* self.rpc_client.update_activity(self.activity) and what follows it
UpdateActivity(c, update_result, conn_lost) ==
    IF update_result = "ok"
    THEN [c EXCEPT !.did.updates = @ + 1,
                   !.did.events = Append(@, "update_activity"),
                   !.app.client_connected = TRUE]
    ELSE HandleClientError([c EXCEPT !.did.updates = @ + 1,
                                     !.did.events = Append(@, "update_activity"),
                                     !.rpc.connected = @ /\ ~conn_lost],
                           update_result)

send_rpc_activity(c, connect_result, update_result, conn_lost) ==
    IF ~c.app.client_connected
    THEN IF connect_result = "ok"
         THEN UpdateActivity([c EXCEPT !.rpc = [NewClient(@) EXCEPT !.connected = TRUE],
                                       !.did.connects = @ + 1,
                                       !.did.events = Append(@, "connect")],
                             update_result, conn_lost)
         ELSE HandleClientError([c EXCEPT !.rpc = NewClient(@),
                                          !.did.connects = @ + 1,
                                          !.did.events = Append(@, "connect")],
                                connect_result)
    ELSE UpdateActivity(c, update_result, conn_lost)

PublishIfNeeded(c, connect_result, update_result, conn_lost) ==
    IF c.gs.update_rpc
    THEN send_rpc_activity(c, connect_result, update_result, conn_lost)
    ELSE c

necessary_program_not_running(c, program_name, name_short) ==
    LET short == IF name_short = "" THEN program_name ELSE name_short
        d == [c EXCEPT !.app.test_state = "no " \o Lower(short),
                       !.app.slow_sleep_time = TRUE]
    IN  IF d.app.client_connected
        THEN [d EXCEPT !.rpc.connected = FALSE,
                       !.did.disconnects = @ + 1,
                       !.did.events = Append(@, "disconnect"),
                       !.app.client_connected = FALSE]
        ELSE d

\* the branch of loop_body taken when all three programs run
RunningBranch(c, console_log_parsed, update_rpc, connect_result, update_result, conn_lost) ==
    LET c1 == ClassConfigCheck(c)
        c2 == InterpretConsoleLog(c1, console_log_parsed)
        c3 == [SetTestState(c2) EXCEPT !.gs.update_rpc = update_rpc]
    IN  PublishIfNeeded(c3, connect_result, update_result, conn_lost)

\* as MissingBranch, but looks at Discord before TF2
MissingBranch_DiscordFirst(c, p_data) ==
    IF ~p_data.Discord THEN necessary_program_not_running(c, "Discord", "")
    ELSE IF ~p_data.TF2 THEN necessary_program_not_running(c, "Team Fortress 2", "TF2")
    ELSE necessary_program_not_running(c, "Steam", "")

\* the branches of loop_body taken when a program is missing
MissingBranch(c, p_data) ==
    IF ~p_data.TF2 THEN necessary_program_not_running(c, "Team Fortress 2", "TF2")
    ELSE IF ~p_data.Discord THEN necessary_program_not_running(c, "Discord", "")
    ELSE necessary_program_not_running(c, "Steam", "")

\* as Branch, but publishes after the missing-program branches as well
Branch_PublishAlways(c, p_data, console_log_parsed, update_rpc, connect_result, update_result, conn_lost) ==
    IF AllRunning(p_data)
    THEN RunningBranch(c, console_log_parsed, update_rpc, connect_result, update_result, conn_lost)
    ELSE PublishIfNeeded(MissingBranch(c, p_data), connect_result, update_result, conn_lost)

Branch(c, p_data, console_log_parsed, update_rpc, connect_result, update_result, conn_lost) ==
    IF AllRunning(p_data)
    THEN RunningBranch(c, console_log_parsed, update_rpc, connect_result, update_result, conn_lost)
    ELSE MissingBranch(c, p_data)

\* as init_operations, but not guarded by did_init_operations
init_operations_EveryTick(c) ==
    [c EXCEPT !.app.did_init_operations = TRUE,
              !.did.init_operations = @ + 1,
              !.did.events = Append(@, "init_operations")]

init_operations(c) ==
    IF ~c.app.did_init_operations
    THEN [c EXCEPT !.app.did_init_operations = TRUE,
                   !.did.init_operations = @ + 1,
                   !.did.events = Append(@, "init_operations")]
    ELSE c

FastNextLoop(c) ==
    IF c.app.no_condebug THEN [c EXCEPT !.app.fast_next_loop = TRUE] ELSE c

\* as LowerPriority, but not guarded by has_set_process_priority
LowerPriority_EveryTick(c) ==
    [c EXCEPT !.app.has_set_process_priority = TRUE,
              !.did.priority = @ + 1,
              !.did.events = Append(@, "priority")]

LowerPriority(c) ==
    IF ~c.app.has_set_process_priority
    THEN [c EXCEPT !.app.has_set_process_priority = TRUE,
                   !.did.priority = @ + 1,
                   !.did.events = Append(@, "priority")]
    ELSE c

\* self.gui.safe_update() of loop_body, after the branch
SafeUpdate(c) == [c EXCEPT !.did.events = Append(@, "safe_update")]

\* the front end handles its events inside a gui.safe_update() call: when the
\* user closes the window there, alive is false from then on and loop_body
\* goes on
CloseWindow(c, closes) ==
    IF closes THEN [c EXCEPT !.alive = FALSE, !.did.closed = TRUE] ELSE c

\* loop_body with the front end alive, from its top to its gui.safe_update()
\* call, which a branch that raised does not reach: p_data is the process
\* scan, no_condebug_found and console_log_parsed what the config scan and the
\* log interpretation return, update_rpc the game state's decision of this
\* tick, connect_result, update_result and conn_lost how the client calls end
loop_body(c, p_data, no_condebug_found, console_log_parsed, update_rpc, connect_result, update_result, conn_lost) ==
    LET c0 == [LoopStart(c) EXCEPT !.did = [NothingDone EXCEPT !.p_data = p_data]]
        c1 == SteamConfigScan(c0, p_data, no_condebug_found)
        c2 == Branch(c1, p_data, console_log_parsed, update_rpc, connect_result, update_result, conn_lost)
    IN  IF c2.did.raised # "none" THEN c2 ELSE SafeUpdate(c2)

\* the end of loop_body, after init_operations
LoopEnd(c) == LowerPriority(FastNextLoop(c))

\* ------------------------------------------------------------ actions

\* the application object as constructed, before run()
SessionInit(set_process_priority) ==
    /\ app = TF2RichPresense(set_process_priority)
    /\ game_state = GameState
    /\ rpc_client = NoClient
    /\ tick = NothingDone
    /\ pc = "loop_body"
    /\ alive = TRUE
    /\ sleep_time = 0
    /\ sleep_elapsed = 0


Init ==
    /\ clock = 0
    /\ maps_db \in [common_custom : StaticTables]
    /\ db \in [custom_maps : InitialCaches]
    /\ map_invalidation_hours \in 1..MaxHours
    /\ call = [map_filename |-> "", force_api |-> FALSE, now |-> 0]
    /\ response = NoResponse
    /\ outcome = [ret |-> <<>>, raised |-> "none", requests |-> 0,
                  cache_reads |-> 0, cache_writes |-> 0, path |-> "init"]
    /\ in_flight = <<>>
    /\ SessionInit(TRUE)

\* time passes between two calls
Advance ==
    /\ \E t \in Instants : t > clock /\ clock' = t
    /\ UNCHANGED <<maps_db, db, map_invalidation_hours, call, response, outcome>>
    /\ UNCHANGED <<in_flight, session_vars>>

\* whether a call with these arguments reaches requests.get
IssuesRequest(map_filename, force_api) ==
    find_custom_map_gamemode(map_filename, force_api, clock, clock, NoResponse,
                             db, maps_db, map_invalidation_hours).requests > 0

\* the state after a call that returned (or raised) r at time request_end
Finish(map_filename, force_api, resp, request_end, r) ==
    /\ call' = [map_filename |-> map_filename, force_api |-> force_api, now |-> clock]
    /\ response' = resp
    /\ outcome' = [ret |-> r.ret, raised |-> r.raised, requests |-> r.requests,
                   cache_reads |-> r.cache_reads, cache_writes |-> r.cache_writes,
                   path |-> r.path]
    /\ db' = r.db
    /\ clock' = request_end
    /\ UNCHANGED <<maps_db, map_invalidation_hours>>
    /\ UNCHANGED <<in_flight, session_vars>>

\* one call of find_custom_map_gamemode; a request, when one is issued, is
\* answered by resp and ends at request_end
Call ==
    \E map_filename \in MapNames, force_api \in BOOLEAN :
        IF IssuesRequest(map_filename, force_api)
        THEN \E resp \in Responses,
                request_end \in {t \in Instants : t >= clock /\ t <= clock + 1} :
                Finish(map_filename, force_api, resp, request_end,
                       find_custom_map_gamemode(map_filename, force_api, clock,
                           request_end, resp, db, maps_db, map_invalidation_hours))
        ELSE Finish(map_filename, force_api, NoResponse, clock,
                    find_custom_map_gamemode(map_filename, force_api, clock, clock,
                        NoResponse, db, maps_db, map_invalidation_hours))

Next == Advance \/ Call

Spec == Init /\ [][Next]_vars

\* ------------------------------------------- main.py: the run loop

MainInit ==
    /\ clock = 0
    /\ maps_db = [common_custom |-> <<>>]
    /\ db = [custom_maps |-> <<>>]
    /\ map_invalidation_hours = 1
    /\ call = [map_filename |-> "", force_api |-> FALSE, now |-> 0]
    /\ response = NoResponse
    /\ outcome = [ret |-> <<>>, raised |-> "none", requests |-> 0,
                  cache_reads |-> 0, cache_writes |-> 0, path |-> "init"]
    /\ in_flight = <<>>
    /\ \E set_process_priority \in BOOLEAN : SessionInit(set_process_priority)

\* the context of the running loop_body call
Context == [app |-> app, gs |-> game_state, rpc |-> rpc_client, alive |-> alive, did |-> tick]

\* the window can be closed in a gui.safe_update() call while it is open
Closes(c) == IF c.alive THEN BOOLEAN ELSE {FALSE}

\* loop_body with context c is inside the gui.safe_update() call named by at:
\* "safe_update" for the call of loop_body, "init_operations" for the call of
\* init_operations; the front end has handled its events
InSafeUpdate(c, at) ==
    /\ app' = c.app
    /\ game_state' = c.gs
    /\ rpc_client' = c.rpc
    /\ tick' = c.did
    /\ alive' = c.alive
    /\ pc' = at
    /\ UNCHANGED <<sleep_time, sleep_elapsed>>

\* the state after loop_body returned or raised with context c
Return(c) ==
    /\ app' = c.app
    /\ game_state' = c.gs
    /\ rpc_client' = c.rpc
    /\ tick' = c.did
    /\ IF c.did.raised = "none"
       THEN /\ pc' = "sleep"
            /\ sleep_time' = IF c.app.slow_sleep_time THEN wait_time_slow ELSE wait_time
            /\ sleep_elapsed' = 0
       ELSE /\ pc' = "crashed"
            /\ UNCHANGED <<sleep_time, sleep_elapsed>>
    /\ alive' = c.alive

\* run() calls loop_body, which raises SystemExit, raises in its branch or
\* runs into its gui.safe_update() call
LoopBody ==
    /\ pc = "loop_body"
    /\ IF ~alive
       THEN /\ pc' = "exited"
            /\ tick' = [NothingDone EXCEPT !.raised = "SystemExit"]
            /\ UNCHANGED <<app, game_state, rpc_client, alive, sleep_time, sleep_elapsed>>
       ELSE /\ app.loop_iteration < MaxLoops
            /\ \E p_data \in PData :
               \E no_condebug_found \in IF p_data.Steam THEN BOOLEAN ELSE {FALSE} :
               \E console_log_parsed \in IF AllRunning(p_data) THEN ConsoleLogs ELSE {NoneParsed} :
               \E update_rpc \in IF AllRunning(p_data) THEN BOOLEAN ELSE {game_state.update_rpc} :
               \E connect_result \in IF AllRunning(p_data) /\ update_rpc /\ ~app.client_connected
                                     THEN IpcResults ELSE {"ok"} :
               \E update_result \in IF AllRunning(p_data) /\ update_rpc /\ connect_result = "ok"
                                    THEN IpcResults ELSE {"ok"} :
               \E conn_lost \in IF update_result = "ok" THEN {FALSE} ELSE BOOLEAN :
                   LET c == loop_body(Context, p_data, no_condebug_found, console_log_parsed,
                                      update_rpc, connect_result, update_result, conn_lost)
                   IN  IF c.did.raised # "none"
                       THEN Return(c)
                       ELSE \E closes \in Closes(c) :
                                InSafeUpdate(CloseWindow(c, closes), "safe_update")
    /\ UNCHANGED resolver_vars

\* loop_body goes on after its gui.safe_update() call: init_operations runs
\* into its own gui.safe_update() call, or, the init operations being done,
\* loop_body runs to its return
InitOperations ==
    /\ pc = "safe_update"
    /\ LET c == init_operations(Context)
       IN  IF c.did.init_operations > tick.init_operations
           THEN \E closes \in Closes(c) :
                    InSafeUpdate(CloseWindow(c, closes), "init_operations")
           ELSE Return(LoopEnd(c))
    /\ UNCHANGED resolver_vars

\* init_operations goes on after its gui.safe_update() call and loop_body
\* runs to its return
LoopBodyEnd ==
    /\ pc = "init_operations"
    /\ Return(LoopEnd(Context))
    /\ UNCHANGED resolver_vars

\* as Sleeping, but without looking at gui.alive
Sleeping_IgnoresAlive == sleep_elapsed < sleep_time /\ ~app.fast_next_loop

\* the condition of the sleep loop of run()
Sleeping == sleep_elapsed < sleep_time /\ alive /\ ~app.fast_next_loop

\* one or more rounds of time.sleep(1 / 30) and gui.safe_update()
SleepTick ==
    /\ pc = "sleep"
    /\ Sleeping
    /\ sleep_elapsed' = sleep_elapsed + 1
    /\ UNCHANGED <<app, game_state, rpc_client, tick, pc, alive, sleep_time>>
    /\ UNCHANGED resolver_vars

\* the sleep loop ends and run() calls loop_body again
SleepDone ==
    /\ pc = "sleep"
    /\ ~Sleeping
    /\ pc' = "loop_body"
    /\ UNCHANGED <<app, game_state, rpc_client, tick, alive, sleep_time, sleep_elapsed>>
    /\ UNCHANGED resolver_vars

\* the user closes the window before run() or during a sleep
CloseGui ==
    /\ pc \in {"loop_body", "sleep"}
    /\ alive
    /\ alive' = FALSE
    /\ UNCHANGED <<app, game_state, rpc_client, tick, pc, sleep_time, sleep_elapsed>>
    /\ UNCHANGED resolver_vars

MainNext == LoopBody \/ InitOperations \/ LoopBodyEnd \/ SleepTick \/ SleepDone \/ CloseGui

MainSpec == MainInit /\ [][MainNext]_vars

\* ------------------- custom_maps.py: two calls running at the same time

Threads == {1, 2}

\* two calls of find_custom_map_gamemode(log, map_filename) are about to start
RaceInit ==
    /\ clock = 0
    /\ maps_db \in [common_custom : StaticTables]
    /\ db \in [custom_maps : InitialCaches]
    /\ map_invalidation_hours = 1
    /\ call = [map_filename |-> "", force_api |-> FALSE, now |-> 0]
    /\ response = NoResponse
    /\ outcome = [ret |-> <<>>, raised |-> "none", requests |-> 0,
                  cache_reads |-> 0, cache_writes |-> 0, path |-> "init"]
    /\ in_flight \in [Threads -> [pc : {"start"}, map_filename : MapNames,
                                  seconds_since_epoch_now : {0},
                                  custom_map_gamemodes : {<<>>},
                                  ret : {<<>>}, requests : {0}, cache_writes : {0}]]
    /\ SessionInit(TRUE)

\* call t runs from its start to requests.get (lines 22-55), or to its return
\* when the name is blank, in the static table or validly cached
RaceRead(t) ==
    /\ in_flight[t].pc = "start"
    /\ LET map_filename == in_flight[t].map_filename
       IN  IF IssuesRequest(map_filename, FALSE)
           THEN in_flight' = [in_flight EXCEPT
                    ![t].pc = "request",
                    ![t].seconds_since_epoch_now = clock,
                    ![t].custom_map_gamemodes = access_custom_maps_cache(db, <<>>).result]
           ELSE in_flight' = [in_flight EXCEPT
                    ![t].pc = "done",
                    ![t].seconds_since_epoch_now = clock,
                    ![t].ret = find_custom_map_gamemode(map_filename, FALSE, clock, clock,
                                   NoResponse, db, maps_db, map_invalidation_hours).ret]
    /\ UNCHANGED <<clock, maps_db, db, map_invalidation_hours, call, response, outcome>>
    /\ UNCHANGED session_vars

\* the request of call t is answered by resp and the call runs to its end
\* (lines 55-96), writing the cache from its own copy
RaceWrite(t) ==
    /\ in_flight[t].pc = "request"
    /\ \E resp \in Responses :
         LET r == ApiLookup(in_flight[t].map_filename, in_flight[t].seconds_since_epoch_now,
                           clock, resp, db, in_flight[t].custom_map_gamemodes)
         IN  /\ db' = r.db
             /\ in_flight' = [in_flight EXCEPT ![t].pc = "done",
                                               ![t].ret = r.ret,
                                               ![t].requests = r.requests,
                                               ![t].cache_writes = r.cache_writes]
    /\ UNCHANGED <<clock, maps_db, map_invalidation_hours, call, response, outcome>>
    /\ UNCHANGED session_vars

RaceNext == \E t \in Threads : RaceRead(t) \/ RaceWrite(t)

RaceSpec == RaceInit /\ [][RaceNext]_vars

\* run() keeps running: a loop_body call that is due is made, and the sleep
\* loop goes on to its next round or to its end
MainLive ==
    /\ MainSpec
    /\ WF_vars(LoopBody)
    /\ WF_vars(InitOperations)
    /\ WF_vars(LoopBodyEnd)
    /\ WF_vars(SleepTick)
    /\ WF_vars(SleepDone)

\* ------------------------------------------------- properties: helpers

\* the cache expiration period in seconds
TTL == map_invalidation_hours * SecondsPerHour

\* the step is a call of find_custom_map_gamemode (a call that repeats the
\* latest one at the same instant with the same result leaves the state as it is)
CallStep == <<call, response, outcome>>' # <<call, response, outcome>> \/ db' # db

\* the map of the step's call is neither blank nor in the static table
CustomMapCalled ==
    /\ CallStep
    /\ call'.map_filename # ""
    /\ call'.map_filename \notin DOMAIN maps_db.common_custom

\* before the step's call the cache holds an entry for the map of the call
CachedBefore == call'.map_filename \in DOMAIN db.custom_maps

\* that entry, and its age at the time the call reads the clock
EntryBefore == db.custom_maps[call'.map_filename]
AgeBefore == call'.now - EntryBefore[3]

\* the latest call issued a request that ended in a connect or read timeout
TimedOut ==
    outcome.requests = 1 /\ response.exc \in {"ConnectTimeout", "ReadTimeout"}

\* the response of the latest call lists a tag of the translation table
ListsRecognisedTag ==
    /\ response.exc = "none"
    /\ response.body = "object_list"
    /\ \E i \in DOMAIN response.tags : response.tags[i] \in gamemodes_keys

\* the latest call issued a request that failed for a reason other than a
\* timeout: another transport exception, or a body that cannot be parsed (not
\* JSON, or JSON without 'all_gamemodes')
FailedTerminally ==
    /\ outcome.requests = 1
    /\ \/ response.exc = "ConnectionError"
       \/ response.exc = "none" /\ response.body \in {"not_json", "object_no_key"}

\* the cache holds no valid entry for the map of the latest call at its time
NoValidEntry ==
    \/ call.map_filename \notin DOMAIN db.custom_maps
    \/ call.now - db.custom_maps[call.map_filename][3] > TTL

\* ------------------------------------------------------------- claims

\* C1: a map name present in the static table resolves to the table's value
\* with no cache read, no cache write and no network request, whatever
\* force_api is; the cache document is left as it was.
C1_StaticPrecedence ==
    [][(CallStep /\ call'.map_filename \in DOMAIN maps_db.common_custom)
        => /\ outcome'.ret = maps_db.common_custom[call'.map_filename]
           /\ outcome'.requests = 0
           /\ outcome'.cache_reads = 0
           /\ outcome'.cache_writes = 0
           /\ db' = db]_vars

\* C1 witness: a forced call for a static map that also has a cache entry with
\* another gamemode returned the table's value.
C1_Witness ==
    /\ call.map_filename = "cp_catwalk_a5c"
    /\ call.force_api
    /\ call.map_filename \in DOMAIN maps_db.common_custom
    /\ call.map_filename \in DOMAIN db.custom_maps
    /\ db.custom_maps[call.map_filename][1] = "koth"
    /\ outcome.ret = <<"control-point", "Control Point">>
    /\ outcome.requests = 0

\* C2: a call without force_api for a custom map whose cache entry is younger
\* than the TTL returns exactly the cached pair, issues no network request and
\* leaves the cache document unchanged.
C2_FreshCacheHit ==
    [][(CustomMapCalled /\ ~call'.force_api /\ CachedBefore /\ AgeBefore < TTL)
        => /\ outcome'.ret = <<EntryBefore[1], EntryBefore[2]>>
           /\ outcome'.requests = 0
           /\ db' = db]_vars

\* C2 witness: one second before the TTL a call returned the pair cached at
\* time 1 without a request.
C2_Witness ==
    /\ call.map_filename = "cp_catwalk_a5c"
    /\ call.map_filename \notin DOMAIN maps_db.common_custom
    /\ ~call.force_api
    /\ call.now = TTL
    /\ call.map_filename \in DOMAIN db.custom_maps
    /\ db.custom_maps[call.map_filename] = <<"control-point", "Control Point", 1>>
    /\ outcome.ret = <<"control-point", "Control Point">>
    /\ outcome.requests = 0

\* C3: without force_api a cache entry is a valid hit exactly when
\* now - resolved_at <= TTL: then the cached pair is returned and no request is
\* made (also at age equal to the TTL); at any greater age, as at a missing
\* entry, the call issues a network request.
C3_HitIffWithinTTL ==
    [][(CustomMapCalled /\ ~call'.force_api)
        => /\ (outcome'.requests = 0) <=> (CachedBefore /\ AgeBefore <= TTL)
           /\ (outcome'.requests = 0)
                 => outcome'.ret = <<EntryBefore[1], EntryBefore[2]>>
           /\ outcome'.requests \in {0, 1}]_vars

\* C3 witness: a call exactly TTL seconds after the entry was resolved at time 0
\* returned the cached pair without a request.
C3_Witness ==
    /\ call.map_filename = "ytsb8eitybw"
    /\ call.map_filename \notin DOMAIN maps_db.common_custom
    /\ ~call.force_api
    /\ call.now = TTL
    /\ call.map_filename \in DOMAIN db.custom_maps
    /\ db.custom_maps[call.map_filename] = <<"koth", "King of the Hill", 0>>
    /\ outcome.requests = 0
    /\ outcome.ret = <<"koth", "King of the Hill">>

\* C4 as stated: at the TTL boundary (now - resolved_at = TTL) the entry is
\* treated as expired and re-resolved over the network.
C4_BoundaryExpired ==
    [][(CustomMapCalled /\ ~call'.force_api /\ CachedBefore /\ AgeBefore = TTL)
        => outcome'.requests = 1]_vars

\* C4 amended: at the TTL boundary (now - resolved_at = TTL) the entry is still
\* valid: the cached pair is returned, no request is made and the entry keeps
\* its resolved_at; it expires only when now - resolved_at > TTL.
C4_BoundaryStillValid ==
    [][(CustomMapCalled /\ ~call'.force_api /\ CachedBefore /\ AgeBefore = TTL)
        => /\ outcome'.requests = 0
           /\ outcome'.ret = <<EntryBefore[1], EntryBefore[2]>>
           /\ db'.custom_maps[call'.map_filename] = EntryBefore]_vars

\* C4 witness: a call exactly TTL seconds after the entry was resolved returned
\* the cached sentinel pair without a request.
C4_Witness ==
    /\ call.map_filename = "ytsb8eitybw"
    /\ ~call.force_api
    /\ call.map_filename \in DOMAIN db.custom_maps
    /\ db.custom_maps[call.map_filename] = <<"unknown_map", "Unknown gamemode", 1>>
    /\ call.now = TTL + 1
    /\ outcome.requests = 0
    /\ outcome.cache_reads = 1
    /\ outcome.ret = SentinelPair

\* C8: a call with an empty map name returns the sentinel pair and issues no
\* network request, reads no cache and writes no cache, whatever force_api is.
C8_BlankName ==
    [][(CallStep /\ call'.map_filename = "")
        => /\ outcome'.ret = SentinelPair
           /\ outcome'.requests = 0
           /\ outcome'.cache_reads = 0
           /\ outcome'.cache_writes = 0
           /\ db' = db]_vars

\* C8 witness: a forced call with the empty name returned the sentinel pair
\* while the cache held entries.
C8_Witness ==
    /\ call.map_filename = ""
    /\ call.force_api
    /\ outcome.path = "blank"
    /\ outcome.ret = SentinelPair
    /\ DOMAIN db.custom_maps # {}

\* C5: when the request fails for any reason other than a timeout (another
\* transport exception, or a body that cannot be parsed) the call returns the
\* sentinel pair and the cache holds [unknown_map, Unknown gamemode, now] for
\* the map.
C5_TerminalFailureCached ==
    FailedTerminally
        => /\ outcome.ret = SentinelPair
           /\ call.map_filename \in DOMAIN db.custom_maps
           /\ db.custom_maps[call.map_filename]
                 = <<"unknown_map", "Unknown gamemode", call.now>>

\* C6: over calls without force_api on one map whose every request ends in a
\* terminal failure, two requests are more than one TTL apart (at most one
\* request within a TTL window).
C6_OneRequestPerWindow ==
    [][(/\ FailedTerminally /\ ~call.force_api
        /\ CallStep
        /\ call'.map_filename = call.map_filename /\ ~call'.force_api
        /\ FailedTerminally')
        => call'.now - call.now > TTL]_vars

\* C7: a call whose request times out returns the sentinel pair and leaves the
\* cache document unchanged (no entry created, an expired entry kept as it
\* was); with no valid entry for the map, the next call for it issues a
\* request again.
C7_TimeoutNotCached ==
    [][/\ (CallStep /\ TimedOut')
            => (outcome'.ret = SentinelPair /\ db' = db)
       /\ (/\ TimedOut /\ NoValidEntry
           /\ CallStep /\ call'.map_filename = call.map_filename)
            => outcome'.requests = 1]_vars

\* C7 witness: the request for a map whose entry had expired timed out; the
\* entry still holds its old pair and its old resolved_at.
C7_Witness ==
    /\ TimedOut
    /\ response.exc = "ReadTimeout"
    /\ call.map_filename = "cp_catwalk_a5c"
    /\ ~call.force_api
    /\ call.now = TTL + 1
    /\ call.map_filename \in DOMAIN db.custom_maps
    /\ db.custom_maps[call.map_filename] = <<"koth", "King of the Hill", 0>>
    /\ outcome.ret = SentinelPair

\* C9: when the response lists a recognised tag, the result is
\* (t, gamemodes[t]) for the first tag t in response order that is a key of
\* the translation table, whatever tags follow it.
C9_FirstMatch ==
    (outcome.requests = 1 /\ ListsRecognisedTag)
        => \E i \in DOMAIN response.tags :
              /\ response.tags[i] \in gamemodes_keys
              /\ \A j \in 1..(i - 1) : response.tags[j] \notin gamemodes_keys
              /\ outcome.ret = <<response.tags[i], gamemodes[response.tags[i]]>>

\* C9 witness: the response lists koth first and control-point after it, both
\* recognised: the result is koth.
C9_Witness ==
    /\ outcome.requests = 1
    /\ response.tags = <<"koth", "control-point">>
    /\ outcome.ret = <<"koth", "King of the Hill">>

\* C10: when a custom map with no prior cache entry is resolved by the network
\* to a recognised tag, the cache afterwards holds for that map exactly the
\* returned pair with resolved_at equal to the time read at the start of the
\* call.
C10_WriteBackOnSuccess ==
    [][(/\ CustomMapCalled /\ ~CachedBefore
        /\ outcome'.requests = 1 /\ ListsRecognisedTag')
        => /\ call'.map_filename \in DOMAIN db'.custom_maps
           /\ db'.custom_maps[call'.map_filename]
                 = <<outcome'.ret[1], outcome'.ret[2], clock>>
           /\ outcome'.ret # SentinelPair]_vars

\* C10 witness: cp_catwalk_a5c, answered with [control-point, other-tag] by a
\* request that took a second, is the one entry of the cache, stamped with the
\* time at which the call started.
C10_Witness ==
    /\ call.map_filename = "cp_catwalk_a5c"
    /\ response.tags = <<"control-point", "other-tag">>
    /\ outcome.ret = <<"control-point", "Control Point">>
    /\ DOMAIN db.custom_maps = {"cp_catwalk_a5c"}
    /\ db.custom_maps["cp_catwalk_a5c"] = <<"control-point", "Control Point", call.now>>
    /\ clock = call.now + 1

\* the latest call issued a request whose response lists no tag of the
\* translation table
ListsNoRecognisedTag ==
    /\ outcome.requests = 1
    /\ response.exc = "none"
    /\ response.body = "object_list"
    /\ \A i \in DOMAIN response.tags : response.tags[i] \notin gamemodes_keys

\* the latest call issued a request that the remote service answered
Answered == outcome.requests = 1 /\ response.exc = "none"

\* the (gamemode_id, display_name) of a cache entry
PairOf(entry) == <<entry[1], entry[2]>>

\* the entry of map m is unexpired when the step's call reads the clock
UnexpiredBefore(m) == clock - db.custom_maps[m][3] <= TTL

\* C11: a response without a recognised tag makes the call cache the sentinel
\* pair with the current timestamp and return it, and a second immediate call
\* (without force_api) for the same map makes no network request.
C11_UnknownCachedOnce ==
    [][/\ (CallStep /\ ListsNoRecognisedTag')
            => /\ outcome'.ret = SentinelPair
               /\ call'.map_filename \in DOMAIN db'.custom_maps
               /\ db'.custom_maps[call'.map_filename]
                     = <<"unknown_map", "Unknown gamemode", clock>>
       /\ (/\ ListsNoRecognisedTag
           /\ CallStep /\ call'.map_filename = call.map_filename
           /\ ~call'.force_api /\ call'.now <= call.now + 1)
            => (outcome'.requests = 0 /\ outcome'.ret = SentinelPair)]_vars

\* C11 witness: the second call for ytsb8eitybw, in the second in which the
\* sentinel was cached, returned it from the cache without a request.
C11_Witness ==
    /\ call.map_filename = "ytsb8eitybw"
    /\ ~call.force_api
    /\ call.now = 1
    /\ call.map_filename \in DOMAIN db.custom_maps
    /\ db.custom_maps[call.map_filename] = <<"unknown_map", "Unknown gamemode", 1>>
    /\ outcome.requests = 0
    /\ outcome.path = "cache_hit"
    /\ outcome.ret = SentinelPair

\* C12: whatever the remote service answers (any status, any body, malformed
\* ones included), no exception leaves the call, and a body that is not an
\* 'all_gamemodes' list of tags yields the sentinel pair.
C12_NoExceptionEscapes ==
    Answered
        => /\ outcome.raised = "none"
           /\ (response.body # "object_list" \/ response.status # 200)
                 => outcome.ret = SentinelPair

\* C13: the resolved_at stored for a map key never decreases, and the key is
\* never removed, from one state to the next (the clock is non-decreasing).
C13_ResolvedAtMonotone ==
    [][\A m \in DOMAIN db.custom_maps :
          /\ m \in DOMAIN db'.custom_maps
          /\ db'.custom_maps[m][3] >= db.custom_maps[m][3]]_vars

\* C13 witness: a forced call overwrote, at time TTL + 1, the entry of a map
\* while the other map keeps an entry resolved at an earlier time.
C13_Witness ==
    /\ call.map_filename = "cp_catwalk_a5c"
    /\ call.force_api
    /\ call.now = TTL + 1
    /\ outcome.cache_writes = 1
    /\ DOMAIN db.custom_maps = {"cp_catwalk_a5c", "ytsb8eitybw"}
    /\ db.custom_maps["cp_catwalk_a5c"][3] = TTL + 1
    /\ db.custom_maps["ytsb8eitybw"][3] = 1

\* C14 as stated: while the entry of a map is unexpired, the pair stored for
\* it does not change, whatever call is made.
C14_PairFixedWhileUnexpired ==
    [][\A m \in DOMAIN db.custom_maps :
          UnexpiredBefore(m)
            => /\ m \in DOMAIN db'.custom_maps
               /\ PairOf(db'.custom_maps[m]) = PairOf(db.custom_maps[m])]_vars

\* C14 amended: while the entry of a map is unexpired, no call without
\* force_api changes the pair stored for it, and such a call for that (custom)
\* map returns the stored pair; a call with force_api may overwrite it.
C14_PairFixedUnlessForced ==
    [][(CallStep => ~call'.force_api)
        => \A m \in DOMAIN db.custom_maps :
              UnexpiredBefore(m)
                => /\ m \in DOMAIN db'.custom_maps
                   /\ PairOf(db'.custom_maps[m]) = PairOf(db.custom_maps[m])
                   /\ (CustomMapCalled /\ call'.map_filename = m)
                         => outcome'.ret = PairOf(db.custom_maps[m])]_vars

\* C14 witness: at the TTL boundary a call without force_api returned the pair
\* resolved at time 0, and the entry is as it was.
C14_Witness ==
    /\ call.map_filename = "cp_catwalk_a5c"
    /\ call.map_filename \notin DOMAIN maps_db.common_custom
    /\ ~call.force_api
    /\ call.now = TTL
    /\ call.map_filename \in DOMAIN db.custom_maps
    /\ db.custom_maps[call.map_filename] = <<"control-point", "Control Point", 0>>
    /\ outcome.ret = <<"control-point", "Control Point">>
    /\ outcome.cache_writes = 0

\* C15: a call changes at most the cache entry of the map it resolves: every
\* other entry is identical before and after it, no key is removed and no key
\* but the map of the call is added.
C15_OneKeyPerWrite ==
    [][/\ \A m \in DOMAIN db.custom_maps :
             /\ m \in DOMAIN db'.custom_maps
             /\ m # call'.map_filename => db'.custom_maps[m] = db.custom_maps[m]
       /\ DOMAIN db'.custom_maps \subseteq DOMAIN db.custom_maps \cup {call'.map_filename}
       /\ db' # db => outcome'.cache_writes = 1]_vars

\* C15 witness: the call wrote the entry of ytsb8eitybw at time TTL; the entry
\* of cp_catwalk_a5c, resolved at time 0, is still there.
C15_Witness ==
    /\ call.map_filename = "ytsb8eitybw"
    /\ call.now = TTL
    /\ outcome.cache_writes = 1
    /\ DOMAIN db.custom_maps = {"cp_catwalk_a5c", "ytsb8eitybw"}
    /\ db.custom_maps["ytsb8eitybw"] = <<"unknown_map", "Unknown gamemode", TTL>>
    /\ db.custom_maps["cp_catwalk_a5c"] = <<"koth", "King of the Hill", 0>>


\* ------------------------------------- properties of the main loop

\* the step is a loop_body call that got past the front end's alive check,
\* up to its gui.safe_update() call or to the exception of its branch
TickStep == app'.loop_iteration = app.loop_iteration + 1

\* the step is the return of a loop_body call
TickEnds == pc \in {"safe_update", "init_operations"} /\ pc' = "sleep"

\* the latest loop_body call returned
Completed ==
    /\ app.loop_iteration > 0
    /\ tick.raised = "none"
    /\ pc \in {"sleep", "loop_body"}

\* the process scan of the latest loop_body call found a program not running
AnyMissing == ~(tick.p_data.TF2 /\ tick.p_data.Discord /\ tick.p_data.Steam)

\* C16: after a tick in which a required process is not running the state
\* names the first missing one in the order TF2, Discord, Steam: 'no tf2'
\* whenever TF2 is missing (all three absent included), 'no discord' when TF2
\* runs and Discord is missing, 'no steam' only when Steam alone is missing.
C16_FirstMissingNamesState ==
    (Completed /\ AnyMissing)
        => /\ ~tick.p_data.TF2 => app.test_state = "no tf2"
           /\ (tick.p_data.TF2 /\ ~tick.p_data.Discord) => app.test_state = "no discord"
           /\ app.test_state = "no steam"
                <=> (tick.p_data.TF2 /\ tick.p_data.Discord /\ ~tick.p_data.Steam)

\* a tick found all three programs absent and left the state 'no tf2'
C16_Witness ==
    /\ Completed
    /\ ~tick.p_data.TF2 /\ ~tick.p_data.Discord /\ ~tick.p_data.Steam
    /\ app.test_state = "no tf2"

\* the presence client exists and its transport is connected
TransportConnected == rpc_client.created /\ rpc_client.connected

\* C17: whenever a tick finds a required process not running, the presence
\* client is disconnected if it was connected, and client_connected is false
\* at the end of that tick.
C17_DisconnectWhenMissing ==
    [][(TickStep /\ AnyMissing')
        => /\ ~app'.client_connected
           /\ TransportConnected
                => (tick'.disconnects = 1 /\ ~rpc_client'.connected)]_vars

\* C18: the sleep following a tick uses wait_time_slow if and only if a
\* required process was not running in that tick, and wait_time otherwise,
\* whatever the mode of the earlier ticks was.
C18_SlowIffMissing ==
    [][/\ (TickStep /\ tick'.raised = "none") => (app'.slow_sleep_time <=> AnyMissing')
       /\ TickEnds
            => /\ AnyMissing' => (app'.slow_sleep_time /\ sleep_time' = wait_time_slow)
               /\ ~AnyMissing' => (~app'.slow_sleep_time /\ sleep_time' = wait_time)]_vars

\* a later tick with all three programs running is followed by a sleep of
\* the normal interval, slept to its end
C18_Witness ==
    /\ pc = "sleep"
    /\ app.loop_iteration >= 2
    /\ ~AnyMissing
    /\ sleep_time = wait_time /\ sleep_elapsed = wait_time

\* C19: in every tick in which a required process is not running no connect
\* and no update_activity call is made on the presence client, whatever the
\* game state's update_rpc flag is.
C19_NoPublishWhenMissing ==
    (app.loop_iteration > 0 /\ tick.raised # "SystemExit" /\ AnyMissing)
        => (tick.connects = 0 /\ tick.updates = 0)

\* a tick found a program missing while update_rpc was set, and made no call
C19_Witness ==
    /\ Completed /\ AnyMissing
    /\ game_state.update_rpc
    /\ tick.connects = 0 /\ tick.updates = 0

\* C20: the class config check runs exactly once per continuous in-game
\* session: it runs in a tick exactly when all programs run and the guard flag
\* is clear, and the flag is clear again after a tick that found the game not
\* running, so the check runs again once the game is back.
C20_ClassConfigOncePerSession ==
    [][(TickStep /\ tick'.raised = "none")
        => /\ tick'.class_config_files = 1
                <=> (~AnyMissing' /\ ~app.has_checked_class_configs)
           /\ tick'.class_config_files \in {0, 1}
           /\ ~tick'.p_data.TF2 => ~app'.has_checked_class_configs]_vars


\* the calls a tick makes in its branch, before the end of loop_body
BranchEvents == {"class_config_files", "set_bulk", "connect", "update_activity", "disconnect"}

\* in the sequence of calls e, init_operations comes after a safe_update and
\* after every call of the branch
InitOperationsAfterBranch(e) ==
    \E i \in DOMAIN e :
        /\ e[i] = "init_operations"
        /\ \E j \in 1..(i - 1) : e[j] = "safe_update"
        /\ \A j \in DOMAIN e : e[j] \in BranchEvents => j < i

\* C21: the init operations run exactly once per process lifetime: at the end
\* of the first completed tick, after that tick's branch and the front-end
\* update, never before the first tick and in no later tick.
C21_InitOperationsOnce ==
    [][/\ TickStep => (tick'.init_operations = 0 /\ app'.did_init_operations = app.did_init_operations)
       /\ TickEnds
            => /\ tick'.init_operations = IF app'.loop_iteration = 1 THEN 1 ELSE 0
               /\ tick'.init_operations = 1 => InitOperationsAfterBranch(tick'.events)
               /\ app'.did_init_operations
       /\ app'.did_init_operations # app.did_init_operations
            => (pc = "safe_update" /\ app.loop_iteration = 1 /\ tick'.init_operations = 1)
       /\ app.loop_iteration = 0 => ~app.did_init_operations]_vars

\* the first tick connected, published and then ran the init operations
C21_Witness ==
    /\ Completed
    /\ app.loop_iteration = 1
    /\ app.did_init_operations
    /\ tick.init_operations = 1
    /\ tick.events = <<"class_config_files", "connect", "update_activity",
                       "safe_update", "init_operations", "priority">>


\* C22: the process priority is lowered exactly once per process lifetime, at
\* the end of the first tick that completes without an exception and in no
\* later tick; an application constructed with set_process_priority = false
\* (has_set_process_priority true before the first tick) never lowers it.
C22_PriorityOnce ==
    [][/\ TickEnds
            => /\ tick'.priority
                    = IF app'.loop_iteration = 1 /\ ~app.has_set_process_priority
                      THEN 1 ELSE 0
               /\ tick'.priority = 1 => tick'.events[Len(tick'.events)] = "priority"
               /\ app'.has_set_process_priority
       /\ ~TickEnds
            => /\ app'.has_set_process_priority = app.has_set_process_priority
               /\ tick'.priority <= tick.priority]_vars

\* the first tick completed and lowered the priority as its last call
C22_Witness ==
    /\ Completed
    /\ app.loop_iteration = 1
    /\ app.has_set_process_priority
    /\ tick.priority = 1
    /\ tick.events[Len(tick.events)] = "priority"


\* C23: a connect or send failure in send_rpc_activity whose message is
\* "Can't send data to Discord via IPC." or "Can't connect to Discord Client."
\* is logged only and the tick runs to its end; a failure with any other
\* message leaves loop_body as an exception and ends the session.
C23_RecognisedFailuresOnly ==
    [][/\ pc # "crashed"
       /\ (TickStep /\ tick'.client_error # "")
            => IF tick'.client_error \in {"Can't send data to Discord via IPC.",
                                          "Can't connect to Discord Client."}
               THEN /\ tick'.raised = "none"
                    /\ pc' = "safe_update"
                    /\ "safe_update" \in Range(tick'.events)
               ELSE /\ tick'.raised = "Exception"
                    /\ pc' = "crashed"
                    /\ "safe_update" \notin Range(tick'.events)
       /\ pc = "safe_update" => (pc' = "init_operations" \/ TickEnds)
       /\ pc = "init_operations" => TickEnds
       /\ TickEnds => (app'.did_init_operations /\ app'.has_set_process_priority)]_vars

\* the first tick could not connect, logged it and ran to its end
C23_Witness ==
    /\ Completed
    /\ app.loop_iteration = 1
    /\ tick.client_error = "Can't connect to Discord Client."
    /\ tick.connects = 1 /\ tick.updates = 0
    /\ tick.init_operations = 1
    /\ pc = "sleep"


\* C24: the presence connection is established lazily and reused: a client
\* is created only by a publish attempt, a publish while the client is
\* connected makes no new connect, and every publish attempted while the
\* client is disconnected (never connected, explicitly disconnected, or having
\* lost its connection during a failed send) first reconnects.
C24_LazyConnectAndReuse ==
    [][/\ (rpc_client'.created /\ ~rpc_client.created) => tick'.connects = 1
       /\ (TickStep /\ tick'.connects + tick'.updates > 0)
            => /\ TransportConnected => tick'.connects = 0
               /\ ~TransportConnected
                    => /\ tick'.connects = 1
                       /\ \A i, j \in DOMAIN tick'.events :
                             (tick'.events[i] = "connect"
                                /\ tick'.events[j] = "update_activity") => i < j]_vars


\* C25: once gui.alive is false the sleep loop waits no further, and the next
\* loop_body raises SystemExit without scanning, changing the session or the
\* game state, or touching the presence client; so after alive has become
\* false the run loop eventually terminates. A loop_body call that is inside a
\* gui.safe_update() call when the window is closed runs to its return first,
\* without starting a tick or touching the game state or the presence client.
C25_CooperativeCancel ==
    /\ [][~alive
            => /\ ~alive'
               /\ pc = "sleep"
                    => /\ pc' = "loop_body"
                       /\ sleep_elapsed' = sleep_elapsed
                       /\ <<app, game_state, rpc_client>>' = <<app, game_state, rpc_client>>
               /\ pc = "loop_body"
                    => /\ pc' = "exited"
                       /\ tick'.raised = "SystemExit" /\ tick'.events = <<>>
                       /\ <<app, game_state, rpc_client>>' = <<app, game_state, rpc_client>>
               /\ pc \in {"safe_update", "init_operations"}
                    => /\ pc' \in {"init_operations", "sleep"}
                       /\ app'.loop_iteration = app.loop_iteration
                       /\ <<game_state, rpc_client>>' = <<game_state, rpc_client>>
                       /\ <<tick.connects, tick.updates, tick.disconnects>>'
                            = <<tick.connects, tick.updates, tick.disconnects>>]_vars
    /\ (~alive ~> pc = "exited")

\* the window was closed during a sleep that had not run out, and run() ended
\* with SystemExit
C25_Witness ==
    /\ ~alive
    /\ pc = "exited"
    /\ tick.raised = "SystemExit"
    /\ app.loop_iteration >= 1
    /\ ~app.fast_next_loop
    /\ sleep_elapsed < sleep_time


\* the map, class, queue status and menu flag of a game state
Parsed(gs) == <<gs.in_menus, gs.tf2_map, gs.tf2_class, gs.queued_state>>

\* C26: when the log interpretation of a tick returns None, the tick does not
\* call set_bulk, and the map, class, queue status and menu flag are those
\* held from the previous tick.
C26_NoneKeepsGameState ==
    [][(TickStep /\ tick'.parsed = "None")
        => /\ tick'.set_bulk = 0
           /\ Parsed(game_state') = Parsed(game_state)]_vars

\* a tick read None from the log while the game state held a match on
\* cp_orange_x3, and kept it
C26_Witness ==
    /\ Completed
    /\ tick.parsed = "None"
    /\ tick.set_bulk = 0
    /\ ~game_state.in_menus
    /\ game_state.tf2_map = "cp_orange_x3"
    /\ game_state.tf2_class = "Scout"
    /\ app.test_state = "in game"


\* C27: the session state is always one of init, no tf2, no discord, no steam,
\* menus, in game; it is init exactly as long as no tick has got past the
\* alive check; and after a tick in which all three programs run it is menus
\* if the game state's in_menus is true and in game otherwise.
C27_SessionStates ==
    /\ app.test_state \in {"init", "no tf2", "no discord", "no steam", "menus", "in game"}
    /\ app.test_state = "init" <=> app.loop_iteration = 0
    /\ (Completed /\ ~AnyMissing)
            => app.test_state = IF game_state.in_menus THEN "menus" ELSE "in game"

\* a tick with all three programs running read a match from the log and left
\* the state in game
C27_Witness ==
    /\ Completed /\ ~AnyMissing
    /\ tick.parsed = "tuple"
    /\ ~game_state.in_menus
    /\ app.test_state = "in game"


\* the step ends the sleep loop of run()
SleepEnds == pc = "sleep" /\ pc' = "loop_body"

\* the fast-next-loop mode lasts one tick: fast_next_loop is cleared at the top
\* of a tick and set at the end of exactly the ticks that end with the
\* no-condebug notice, and the sleep after such a tick
\* has no round at all, in slow and in normal mode
FastNextLoopOneTick ==
    /\ TickStep => ~app'.fast_next_loop
    /\ TickEnds => (app'.fast_next_loop <=> app'.no_condebug)
    /\ ~(TickStep \/ TickEnds) => app'.fast_next_loop = app.fast_next_loop
    /\ (pc = "sleep" /\ app.fast_next_loop)
            => (sleep_elapsed = 0 /\ sleep_elapsed' = 0)

\* C28 as stated: the fast-next-loop mode lasts one tick, and a tick without
\* the notice is always followed by a full sleep.
C28_FullSleepWithoutNotice ==
    [][/\ FastNextLoopOneTick
       /\ (SleepEnds /\ ~app.fast_next_loop) => sleep_elapsed >= sleep_time]_vars

\* C28, amended: the fast-next-loop mode lasts one tick, and a tick without
\* the notice is followed by a full sleep as long as the front end stays alive.
C28_FullSleepWhileAlive ==
    [][/\ FastNextLoopOneTick
       /\ (SleepEnds /\ ~app.fast_next_loop /\ alive) => sleep_elapsed >= sleep_time]_vars

\* a tick that found a program missing ended with the notice, and run() is
\* back at loop_body without having slept a round of the slow interval
C28_Witness ==
    /\ pc = "loop_body"
    /\ alive
    /\ Completed /\ AnyMissing
    /\ app.no_condebug /\ app.fast_next_loop
    /\ sleep_time = wait_time_slow
    /\ sleep_elapsed = 0


\* ------------------------------- properties of the resolver, continued

\* the request of the step's call was answered with a body that r.json() parses
ParsedResponse ==
    /\ response'.exc = "none"
    /\ response'.body \in {"array", "object_no_key", "object_null", "object_list"}

\* C29: every call issues at most one request, and a call with force_api for
\* a map that is neither blank nor in the static table issues exactly one,
\* even when the cache holds a fresh entry; on a parsed response it ignores
\* the cached pair and overwrites the entry.
C29_ForcedCallAsksOnce ==
    [][CallStep
        => /\ outcome'.requests <= 1
           /\ (CustomMapCalled /\ call'.force_api)
                => /\ outcome'.requests = 1
                   /\ ParsedResponse
                        => /\ outcome'.cache_writes = 1
                           /\ call'.map_filename \in DOMAIN db'.custom_maps
                           /\ db'.custom_maps[call'.map_filename][3] = call'.now
                           /\ PairOf(db'.custom_maps[call'.map_filename]) = outcome'.ret]_vars


\* ----------------------------------- properties of concurrent calls

\* both calls are over, they were for two different maps, and each of them
\* missed the static table and the cache, asked the service and wrote the cache
BothResolved ==
    /\ \A t \in Threads : /\ in_flight[t].pc = "done"
                           /\ in_flight[t].requests = 1
                           /\ in_flight[t].cache_writes = 1
    /\ in_flight[1].map_filename # in_flight[2].map_filename

\* call t read the cache document after call u had written it
ReadAfterWrite(t, u) ==
    in_flight[u].map_filename \in DOMAIN in_flight[t].custom_map_gamemodes

\* C30: the cache read-modify-write is not atomic: when two calls for two
\* different uncached, non-static maps both read the cache document before
\* either writes it, the cache holds only one of the two new entries after
\* both are over; when one call reads after the other has written, it holds
\* both.
C30_LostUpdate ==
    BothResolved
        => LET present == {t \in Threads :
                             in_flight[t].map_filename \in DOMAIN db.custom_maps}
           IN  IF ReadAfterWrite(1, 2) \/ ReadAfterWrite(2, 1)
               THEN present = Threads
               ELSE Cardinality(present) = 1

\* both calls read the empty cache before either wrote; the entry of call 1
\* is lost
C30_Witness ==
    /\ BothResolved
    /\ in_flight[1].custom_map_gamemodes = <<>>
    /\ in_flight[2].custom_map_gamemodes = <<>>
    /\ in_flight[1].map_filename \notin DOMAIN db.custom_maps
    /\ in_flight[2].map_filename \in DOMAIN db.custom_maps


\* ---------------------- properties of the main loop, continued

\* C31: after every tick client_connected agrees with the transport: it is
\* true if and only if the most recently created presence client is connected,
\* and no new client has been created while an earlier client was still
\* connected and had not been disconnected.
C31_FlagAgreesWithTransport ==
    Completed
        => /\ app.client_connected <=> (rpc_client.created /\ rpc_client.connected)
           /\ ~rpc_client.earlier_connected

====
